---- MODULE Spec2Model ----
(***************************************************************************)
(* Model of the Telegram file bot worker (src/worker.js): the webhook      *)
(* dispatcher handleWebhook, the pipeline onUpdate/onMessage, the four     *)
(* upload operations and sendPlainText.  Every await of the source is a    *)
(* suspension point: an action runs the code from one await to the next.   *)
(* Strings that the code inspects (message text, header values, file       *)
(* names) are sequences of one-character strings; strings that the code    *)
(* only builds and sends are sequences of fragments.                       *)
(***************************************************************************)
EXTENDS Integers, Sequences, FiniteSets, TLC

VARIABLES req, run

vars == <<req, run>>

\* Number of event slots (invocations that may exist side by side).
MaxEvents == 2

Events == 1 .. MaxEvents

(***************************************************************************)
(* Strings                                                                 *)
(***************************************************************************)
UpperChars == <<"A", "B", "C", "D", "E", "F", "G", "H", "I", "J", "K", "L", "M", "N", "O", "P", "Q", "R", "S", "T", "U", "V", "W", "X", "Y", "Z">>

LowerChars == <<"a", "b", "c", "d", "e", "f", "g", "h", "i", "j", "k", "l", "m", "n", "o", "p", "q", "r", "s", "t", "u", "v", "w", "x", "y", "z">>

DigitChars == <<"0", "1", "2", "3", "4", "5", "6", "7", "8", "9">>

RangeOf(s) == {s[i] : i \in 1 .. Len(s)}

IndexIn(c, s) == CHOOSE i \in 1 .. Len(s) : s[i] = c

\* String.prototype.toLowerCase, character by character.
ToLowerChar(c) == IF c \in RangeOf(UpperChars) THEN LowerChars[IndexIn(c, UpperChars)] ELSE c

ToLowerCase(s) == [i \in 1 .. Len(s) |-> ToLowerChar(s[i])]

\* String.prototype.startsWith
StartsWith(s, p) == Len(s) >= Len(p) /\ SubSeq(s, 1, Len(p)) = p

\* a regular expression anchored at the end: /suffix$/
EndsWith(s, p) == Len(s) >= Len(p) /\ SubSeq(s, Len(s) - Len(p) + 1, Len(s)) = p

\* positions of the character c in s
Positions(c, s) == {i \in 1 .. Len(s) : s[i] = c}

Max(S) == CHOOSE x \in S : \A y \in S : y <= x

Min(S) == CHOOSE x \in S : \A y \in S : x <= y

\* s.split('/').pop(): what follows the last '/', the whole string when there is none
LastSegment(s) == IF Positions("/", s) = {} THEN s ELSE SubSeq(s, Max(Positions("/", s)) + 1, Len(s))

\* An optional value: headers.get() returning null, message.text being undefined.
Absent == [present |-> FALSE, value |-> <<>>]

Some(v) == [present |-> TRUE, value |-> v]

\* String(null), as parseInt applies it to its argument
NullToString(h) == IF h.present THEN h.value ELSE <<"n", "u", "l", "l">>

\* String(undefined), as new URL applies it to its argument
UndefinedToString(t) == IF t.present THEN t.value ELSE <<"u", "n", "d", "e", "f", "i", "n", "e", "d">>

(***************************************************************************)
(* parseInt(string, 10)                                                    *)
(***************************************************************************)
NaN == [nan |-> TRUE, val |-> 0]

Num(n) == [nan |-> FALSE, val |-> n]

DigitValue(c) == IndexIn(c, DigitChars) - 1

\* length of the longest prefix of s made of decimal digits
RECURSIVE DigitPrefixLen(_)
DigitPrefixLen(s) == IF s = <<>> \/ Head(s) \notin RangeOf(DigitChars) THEN 0 ELSE 1 + DigitPrefixLen(Tail(s))

RECURSIVE DigitsValue(_)
DigitsValue(s) == IF s = <<>> THEN 0 ELSE 10 * DigitsValue(SubSeq(s, 1, Len(s) - 1)) + DigitValue(s[Len(s)])

RECURSIVE TrimStart(_)
TrimStart(s) == IF s # <<>> /\ Head(s) = " " THEN TrimStart(Tail(s)) ELSE s

RECURSIVE TrimEnd(_)
TrimEnd(s) == IF s # <<>> /\ s[Len(s)] = " " THEN TrimEnd(SubSeq(s, 1, Len(s) - 1)) ELSE s

\* parseInt of the digits after an optional sign; NaN when there is no digit
ParseUnsigned(s) == IF DigitPrefixLen(s) = 0 THEN NaN ELSE Num(DigitsValue(SubSeq(s, 1, DigitPrefixLen(s))))

Negate(r) == IF r.nan THEN r ELSE Num(0 - r.val)

ParseTrimmed(s) == IF s # <<>> /\ Head(s) = "-" THEN Negate(ParseUnsigned(Tail(s))) ELSE IF s # <<>> /\ Head(s) = "+" THEN ParseUnsigned(Tail(s)) ELSE ParseUnsigned(s)

\* parseInt(h, 10) for h a header value or null
ParseInt(h) == ParseTrimmed(TrimStart(NullToString(h)))

GreaterThan_nanExceeds(a, b) == a.nan \/ a.val > b

\* the JavaScript comparison a > b with a possibly NaN: false for NaN
GreaterThan(a, b) == ~a.nan /\ a.val > b

(***************************************************************************)
(* new URL(string) without a base                                          *)
(***************************************************************************)
SchemeChars == RangeOf(UpperChars) \cup RangeOf(LowerChars) \cup RangeOf(DigitChars) \cup {"+", "-", "."}

\* the scheme ends at the first ':' ; 0 when the string has no scheme
SchemeEnd(s) == IF Positions(":", s) = {} THEN 0 ELSE IF Min(Positions(":", s)) >= 2 /\ s[1] \in RangeOf(UpperChars) \cup RangeOf(LowerChars) /\ \A i \in 2 .. Min(Positions(":", s)) - 1 : s[i] \in SchemeChars THEN Min(Positions(":", s)) ELSE 0

Scheme(s) == ToLowerCase(SubSeq(s, 1, SchemeEnd(s) - 1))

SpecialSchemes == {<<"h", "t", "t", "p">>, <<"h", "t", "t", "p", "s">>, <<"f", "t", "p">>, <<"w", "s">>, <<"w", "s", "s">>}

RECURSIVE SkipSlashes(_)
SkipSlashes(s) == IF s # <<>> /\ Head(s) \in {"/", "\\"} THEN SkipSlashes(Tail(s)) ELSE s

HostEndChars == {"/", "\\", "?", "#"}

RECURSIVE HostOf(_)
HostOf(s) == IF s = <<>> \/ Head(s) \in HostEndChars THEN <<>> ELSE <<Head(s)>> \o HostOf(Tail(s))

ForbiddenHostChars == {" ", "<", ">", "^", "|", "%", "[", "]"}

\* the host of a URL with a special scheme: what follows the scheme and its slashes
SpecialHost(s) == HostOf(SkipSlashes(SubSeq(s, SchemeEnd(s) + 1, Len(s))))

\* the URL parser succeeds: a scheme, and for a special scheme a non-empty host without forbidden characters
UrlParses(s) == /\ SchemeEnd(s) > 0
                /\ Scheme(s) \in SpecialSchemes => (SpecialHost(s) # <<>> /\ RangeOf(SpecialHost(s)) \cap ForbiddenHostChars = {})

isValidUrl_anyText(t) == t.present /\ t.value # <<>>

isValidUrl(t) == UrlParses(TrimEnd(TrimStart(UndefinedToString(t))))

\* fetch() only speaks http and https; any other scheme rejects
FetchableSchemes == {<<"h", "t", "t", "p">>, <<"h", "t", "t", "p", "s">>}

(***************************************************************************)
(* Extension tests                                                         *)
(***************************************************************************)
ImageExtensions == {<<".", "j", "p", "g">>, <<".", "j", "p", "e", "g">>, <<".", "p", "n", "g">>, <<".", "g", "i", "f">>, <<".", "b", "m", "p">>, <<".", "w", "e", "b", "p">>, <<".", "s", "v", "g">>}

VideoExtensions == {<<".", "m", "p", "4">>, <<".", "a", "v", "i">>, <<".", "m", "o", "v">>, <<".", "m", "k", "v">>, <<".", "w", "m", "v">>, <<".", "f", "l", "v">>, <<".", "w", "e", "b", "m">>}

AudioExtensions == {<<".", "m", "p", "3">>, <<".", "w", "a", "v">>, <<".", "a", "a", "c">>, <<".", "f", "l", "a", "c">>, <<".", "o", "g", "g">>, <<".", "m", "4", "a">>}

\* the regular expressions carry the i flag
isImageExtension(name) == \E x \in ImageExtensions : EndsWith(ToLowerCase(name), x)

isVideoExtension(name) == \E x \in VideoExtensions : EndsWith(ToLowerCase(name), x)

isAudioExtension(name) == \E x \in AudioExtensions : EndsWith(ToLowerCase(name), x)

(***************************************************************************)
(* Configuration and inputs                                                *)
(***************************************************************************)
\* ENV_BOT_SECRET
SECRET == Some("s3cret")

\* values of the X-Telegram-Bot-Api-Secret-Token header: right, wrong, missing
HeaderValues == {SECRET, Some("guess"), Absent}

ChatIds == {101, 202}

NotAUrl == Some(<<"n", "o", "t", " ", "a", " ", "u", "r", "l">>)

EmptyText == Some(<<>>)

NoScheme == Some(<<"h", "/", "a", ".", "j", "p", "g">>)

NoHost == Some(<<"h", "t", "t", "p", ":", "/", "/">>)

MailUrl == Some(<<"m", "a", "i", "l", "t", "o", ":", "a", ".", "m", "p", "4">>)

JpgUrl == Some(<<"h", "t", "t", "p", ":", "/", "/", "h", "/", "a", ".", "j", "p", "g">>)

Mp4Url == Some(<<"h", "t", "t", "p", ":", "/", "/", "h", "/", "a", ".", "M", "P", "4">>)

Mp3Url == Some(<<"h", "t", "t", "p", ":", "/", "/", "h", "/", "a", ".", "m", "p", "3">>)

ZipUrl == Some(<<"h", "t", "t", "p", ":", "/", "/", "h", "/", "a", ".", "z", "i", "p">>)

DirUrl == Some(<<"h", "t", "t", "p", ":", "/", "/", "h", "/", "d", "/">>)

BareUrl == Some(<<"h", "t", "t", "p", ":", "/", "/", "h">>)

QueryUrl == Some(<<"h", "t", "t", "p", ":", "/", "/", "h", "/", "a", "?", "u", "=", "/", "b", ".", "m", "p", "3">>)

\* message.text: undefined, texts the URL parser rejects, URLs
Texts == {Absent, NotAUrl, EmptyText, NoScheme, NoHost, MailUrl, JpgUrl, Mp4Url, Mp3Url, ZipUrl, DirUrl, BareUrl, QueryUrl}

Messages == [chat : [id : ChatIds], text : Texts]

\* request bodies: not JSON, the JSON value null, an update without a message, an update with a message
Bodies == {[kind |-> "garbage"], [kind |-> "null"], [kind |-> "update"]} \cup {[kind |-> "update", message |-> m] : m \in Messages}

\* values of the content-length header of the fetched resource
ContentLengths == {Absent, Some(<<"1", "0", "0", "0">>), Some(<<"5", "2", "4", "2", "8", "8", "0", "0">>), Some(<<"5", "2", "4", "2", "8", "8", "0", "1">>), Some(<<"6", "0", "0", "0", "0", "0", "0", "0">>), Some(<<"a", "b", "c">>), Some(<<>>)}

\* values of its content-type header
ContentTypes == {Absent, Some(<<"i", "m", "a", "g", "e", "/", "p", "n", "g">>), Some(<<"v", "i", "d", "e", "o", "/", "m", "p", "4">>), Some(<<"a", "u", "d", "i", "o", "/", "m", "p", "e", "g">>), Some(<<"a", "p", "p", "l", "i", "c", "a", "t", "i", "o", "n", "/", "z", "i", "p">>)}

OkResponses == [ok : {TRUE}, statusText : {"OK"}, contentLength : ContentLengths, contentType : ContentTypes]

FailedResponses == [ok : {FALSE}, statusText : {"Not Found", "Bad Gateway"}, contentLength : {Absent, Some(<<"6", "0", "0", "0", "0", "0", "0", "0">>)}, contentType : {Absent, Some(<<"v", "i", "d", "e", "o", "/", "m", "p", "4">>)}]

FileResponses == OkResponses \cup FailedResponses

\* messages of the errors a rejected fetch(), blob() or json() carries
NetworkError == <<"Network connection lost.">>

JsonError == <<"Unexpected token < in JSON at position 0">>

\* message of the TypeError of calling startsWith on null
NullTypeError == <<"Cannot read properties of null (reading 'startsWith')">>

\* the platform's answers to an upload
UploadResults == {[ok |-> TRUE, description |-> ""], [ok |-> FALSE, description |-> "Bad Request: wrong file identifier"], [ok |-> FALSE, description |-> "Request Entity Too Large"]}

GuidanceText == <<"Please send a valid URL to download the file.">>

TooLargeText == <<"The file is too large to send (maximum: 50 MB).">>

\* 50 * 1024 * 1024
SizeLimit == 50 * 1024 * 1024

(***************************************************************************)
(* State of one event: the dispatcher's side (req) and the pipeline (run)  *)
(***************************************************************************)
NoResponse == [status |-> 0, body |-> ""]

IdleReq == [hpc |-> "idle", header |-> Absent, body |-> [kind |-> "none"], resp |-> NoResponse, parsed |-> FALSE]

NoFileResponse == [ok |-> FALSE, statusText |-> "", contentLength |-> Absent, contentType |-> Absent]

NoBlob == [of |-> <<>>]

NoRun == [ppc |-> "none", chatId |-> 0, text |-> Absent, fetched |-> FALSE, fileResponse |-> NoFileResponse, fileName |-> <<>>, fileBlob |-> NoBlob, bodyReads |-> 0, out |-> <<>>, lastError |-> <<>>]

Init == /\ req = [e \in Events |-> IdleReq]
        /\ run = [e \in Events |-> NoRun]

(***************************************************************************)
(* Outbound requests                                                       *)
(***************************************************************************)
\* fetch(apiUrl('sendMessage', { chat_id: chatId, text }))
SendMessageRequest(c, t) == [method |-> "sendMessage", chat_id |-> c, text |-> t]

\* fetch(text)
DownloadRequest(t) == [method |-> "GET", url |-> t]

\* fetch(apiUrl(method), { method: 'POST', body: formData })
UploadRequest(m, c, blob, name) == [method |-> m, chat_id |-> c, file |-> blob, fileName |-> name]

UploadMethods == {"sendPhoto", "sendVideo", "sendAudio", "sendDocument"}

sendPlainText_sharedChat(r, t, where) == LET started == {e \in Events : run[e].chatId # 0}
                                             shared == IF started = {} THEN r.chatId ELSE run[Max(started)].chatId
                                         IN [r EXCEPT !.ppc = where, !.out = Append(@, SendMessageRequest(shared, t))]

\* sendPlainText up to its first await; where names the call site
sendPlainText(r, t, where) == [r EXCEPT !.ppc = where, !.out = Append(@, SendMessageRequest(r.chatId, t))]

Catch_swallows(r, message) == [r EXCEPT !.ppc = "resolved", !.lastError = message]

\* the catch block of onMessage
Catch(r, message) == sendPlainText([r EXCEPT !.lastError = message], <<"Error: ">> \o message, "error_fetch")

sendPhoto(r) == [r EXCEPT !.ppc = "upload_fetch", !.out = Append(@, UploadRequest("sendPhoto", r.chatId, r.fileBlob, r.fileName))]

sendVideo(r) == [r EXCEPT !.ppc = "upload_fetch", !.out = Append(@, UploadRequest("sendVideo", r.chatId, r.fileBlob, r.fileName))]

sendAudio(r) == [r EXCEPT !.ppc = "upload_fetch", !.out = Append(@, UploadRequest("sendAudio", r.chatId, r.fileBlob, r.fileName))]

sendDocument(r) == [r EXCEPT !.ppc = "upload_fetch", !.out = Append(@, UploadRequest("sendDocument", r.chatId, r.fileBlob, r.fileName))]

\* the noun in the error an upload operation throws
UploadNoun(m) == CASE m = "sendPhoto" -> "photo" [] m = "sendVideo" -> "video" [] m = "sendAudio" -> "audio" [] OTHER -> "document"

UploadFailure(m, description) == <<"Failed to send ", UploadNoun(m), ": ", description>>

\* the upload request this run has issued
UploadsOf(r) == {i \in 1 .. Len(r.out) : r.out[i].method \in UploadMethods}

MessagesOf(r) == {i \in 1 .. Len(r.out) : r.out[i].method = "sendMessage"}

DownloadsOf(r) == {i \in 1 .. Len(r.out) : r.out[i].method = "GET"}

(***************************************************************************)
(* onMessage, from one await to the next                                   *)
(***************************************************************************)
\* lines 60-70: up to the guidance message or the fetch of the URL
onMessage(message) == LET r == [NoRun EXCEPT !.chatId = message.chat.id, !.text = message.text]
                      IN IF ~isValidUrl(r.text) THEN sendPlainText(r, GuidanceText, "guidance_fetch") ELSE [r EXCEPT !.ppc = "awaitFetch", !.out = Append(@, DownloadRequest(r.text.value))]

\* onUpdate: 'message' in update throws for null
onUpdate(update) == IF update.kind = "null" THEN [NoRun EXCEPT !.ppc = "rejected"] ELSE IF "message" \in DOMAIN update THEN onMessage(update.message) ELSE [NoRun EXCEPT !.ppc = "resolved"]

ExceedsLimit_decimal60(h) == GreaterThan(ParseInt(h), 60 * 1000 * 1000)

\* contentLength > 50 * 1024 * 1024
ExceedsLimit(h) == GreaterThan(ParseInt(h), SizeLimit)

\* text.split('/').pop() || 'file'
FileNameOf(t) == IF LastSegment(t) = <<>> THEN <<"f", "i", "l", "e">> ELSE LastSegment(t)

DownloadFailure_noStatus(fr) == <<"Failed to download file">>

\* new Error(`Failed to download file: ${fileResponse.statusText}`)
DownloadFailure(fr) == <<"Failed to download file: ", fr.statusText>>

AfterFetch_noReturn(r, fr) == LET r1 == [r EXCEPT !.fetched = TRUE, !.fileResponse = fr]
                                  r2 == [r1 EXCEPT !.fileName = FileNameOf(r.text.value)]
                                  r3 == IF ExceedsLimit(fr.contentLength) THEN [r2 EXCEPT !.out = Append(@, SendMessageRequest(r.chatId, TooLargeText))] ELSE r2
                              IN IF ~fr.ok THEN Catch(r1, DownloadFailure(fr)) ELSE [r3 EXCEPT !.ppc = "awaitBlob", !.bodyReads = @ + 1]

\* lines 71-86: the fetch has answered with fr
AfterFetch(r, fr) == LET r1 == [r EXCEPT !.fetched = TRUE, !.fileResponse = fr]
                         r2 == [r1 EXCEPT !.fileName = FileNameOf(r.text.value)]
                     IN IF ~fr.ok THEN Catch(r1, DownloadFailure(fr)) ELSE IF ExceedsLimit(fr.contentLength) THEN sendPlainText(r2, TooLargeText, "toolarge_fetch") ELSE [r2 EXCEPT !.ppc = "awaitBlob", !.bodyReads = @ + 1]

\* lines 89-98: the cascade that chooses the upload operation; contentType is not null here
Classify(contentType, name) == IF StartsWith(contentType, <<"i", "m", "a", "g", "e", "/">>) \/ isImageExtension(ToLowerCase(name)) THEN "sendPhoto" ELSE IF StartsWith(contentType, <<"v", "i", "d", "e", "o", "/">>) \/ isVideoExtension(ToLowerCase(name)) THEN "sendVideo" ELSE IF StartsWith(contentType, <<"a", "u", "d", "i", "o", "/">>) \/ isAudioExtension(ToLowerCase(name)) THEN "sendAudio" ELSE "sendDocument"

Upload(r, m) == CASE m = "sendPhoto" -> sendPhoto(r) [] m = "sendVideo" -> sendVideo(r) [] m = "sendAudio" -> sendAudio(r) [] OTHER -> sendDocument(r)

\* lines 86-98: blob() has resolved; contentType.startsWith throws when the header was absent
AfterBlob(r) == LET r1 == [r EXCEPT !.fileBlob = [of |-> r.text.value]]
                IN IF ~r.fileResponse.contentType.present THEN Catch(r1, NullTypeError) ELSE Upload(r1, Classify(r.fileResponse.contentType.value, r.fileName))

\* a rejection inside sendPlainText: caught only at the call site inside the try block
SendFailed(r, message) == IF r.ppc \in {"toolarge_fetch", "toolarge_json"} THEN Catch(r, message) ELSE [r EXCEPT !.ppc = "rejected", !.lastError = message]

(***************************************************************************)
(* The dispatcher                                                          *)
(***************************************************************************)
SecretMismatch_presenceOnly(h) == ~h.present

\* event.request.headers.get('X-Telegram-Bot-Api-Secret-Token') !== SECRET
SecretMismatch(h) == h # SECRET

Unauthorized == [status |-> 403, body |-> "Unauthorized"]

OkResponse == [status |-> 200, body |-> "Ok"]

\* a request arrives at /endpoint: handleWebhook up to its first await
Receive(e, h, b) == /\ req[e].hpc = "idle"
                    /\ req' = [req EXCEPT ![e] = IF SecretMismatch(h) THEN [IdleReq EXCEPT !.hpc = "returned", !.header = h, !.body = b, !.resp = Unauthorized] ELSE [IdleReq EXCEPT !.hpc = "awaitJson", !.header = h, !.body = b]]
                    /\ run' = [run EXCEPT ![e] = NoRun]

JsonSettle_awaitsPipeline(e) == /\ req[e].hpc = "awaitJson"
                                /\ IF ~req[e].parsed THEN /\ req' = [req EXCEPT ![e].parsed = TRUE, ![e].hpc = IF req[e].body.kind = "garbage" THEN "rejected" ELSE "awaitJson"]
                                                          /\ run' = [run EXCEPT ![e] = IF req[e].body.kind = "garbage" THEN NoRun ELSE onUpdate(req[e].body)]
                                   ELSE /\ run[e].ppc \in {"resolved", "rejected"}
                                        /\ req' = [req EXCEPT ![e].hpc = "returned", ![e].resp = OkResponse]
                                        /\ UNCHANGED run

\* event.request.json() settles: it rejects for a body that is not JSON, and
\* otherwise onUpdate runs up to its first await and "Ok" is returned
JsonSettle(e) == /\ req[e].hpc = "awaitJson"
                 /\ IF req[e].body.kind = "garbage" THEN /\ req' = [req EXCEPT ![e].hpc = "rejected", ![e].parsed = TRUE]
                                                         /\ UNCHANGED run
                    ELSE /\ req' = [req EXCEPT ![e].hpc = "returned", ![e].parsed = TRUE, ![e].resp = OkResponse]
                         /\ run' = [run EXCEPT ![e] = onUpdate(req[e].body)]

(***************************************************************************)
(* The pipeline's suspension points                                        *)
(***************************************************************************)
\* await fetch(text) resolves with a response
FetchResolve(e, fr) == /\ run[e].ppc = "awaitFetch"
                       /\ Scheme(run[e].text.value) \in FetchableSchemes
                       /\ run' = [run EXCEPT ![e] = AfterFetch(run[e], fr)]
                       /\ UNCHANGED req

\* await fetch(text) rejects
FetchReject(e) == /\ run[e].ppc = "awaitFetch"
                  /\ run' = [run EXCEPT ![e] = Catch(run[e], NetworkError)]
                  /\ UNCHANGED req

\* await fileResponse.blob() resolves
BlobResolve(e) == /\ run[e].ppc = "awaitBlob"
                  /\ run' = [run EXCEPT ![e] = AfterBlob(run[e])]
                  /\ UNCHANGED req

\* await fileResponse.blob() rejects
BlobReject(e) == /\ run[e].ppc = "awaitBlob"
                 /\ run' = [run EXCEPT ![e] = Catch(run[e], NetworkError)]
                 /\ UNCHANGED req

\* the method of the upload in flight
UploadInFlight(r) == r.out[Len(r.out)].method

\* await fetch(apiUrl(...), ...) of an upload operation resolves
UploadFetchResolve(e) == /\ run[e].ppc = "upload_fetch"
                         /\ run' = [run EXCEPT ![e].ppc = "upload_json"]
                         /\ UNCHANGED req

\* it rejects
UploadFetchReject(e) == /\ run[e].ppc = "upload_fetch"
                        /\ run' = [run EXCEPT ![e] = Catch(run[e], NetworkError)]
                        /\ UNCHANGED req

UploadJsonResolve_retries(e, result) == /\ run[e].ppc = "upload_json"
                                        /\ run' = [run EXCEPT ![e] = IF result.ok THEN [run[e] EXCEPT !.ppc = "resolved"] ELSE IF Cardinality(UploadsOf(run[e])) < 2 THEN Upload(run[e], UploadInFlight(run[e])) ELSE Catch(run[e], UploadFailure(UploadInFlight(run[e]), result.description))]
                                        /\ UNCHANGED req

\* await response.json() of an upload operation resolves with result
UploadJsonResolve(e, result) == /\ run[e].ppc = "upload_json"
                                /\ run' = [run EXCEPT ![e] = IF result.ok THEN [run[e] EXCEPT !.ppc = "resolved"] ELSE Catch(run[e], UploadFailure(UploadInFlight(run[e]), result.description))]
                                /\ UNCHANGED req

\* it rejects: the answer is not JSON
UploadJsonReject(e) == /\ run[e].ppc = "upload_json"
                       /\ run' = [run EXCEPT ![e] = Catch(run[e], JsonError)]
                       /\ UNCHANGED req

SendFetchStates == {"guidance_fetch", "toolarge_fetch", "error_fetch"}

SendJsonStates == {"guidance_json", "toolarge_json", "error_json"}

JsonStateOf(p) == CASE p = "guidance_fetch" -> "guidance_json" [] p = "toolarge_fetch" -> "toolarge_json" [] OTHER -> "error_json"

\* await fetch(apiUrl('sendMessage', ...)) inside sendPlainText resolves
SendFetchResolve(e) == /\ run[e].ppc \in SendFetchStates
                       /\ run' = [run EXCEPT ![e].ppc = JsonStateOf(run[e].ppc)]
                       /\ UNCHANGED req

\* it rejects
SendFetchReject(e) == /\ run[e].ppc \in SendFetchStates
                      /\ run' = [run EXCEPT ![e] = SendFailed(run[e], NetworkError)]
                      /\ UNCHANGED req

\* the .json() that sendPlainText returns resolves; its value is not looked at
SendJsonResolve(e) == /\ run[e].ppc \in SendJsonStates
                      /\ run' = [run EXCEPT ![e].ppc = "resolved"]
                      /\ UNCHANGED req

\* it rejects
SendJsonReject(e) == /\ run[e].ppc \in SendJsonStates
                     /\ run' = [run EXCEPT ![e] = SendFailed(run[e], JsonError)]
                     /\ UNCHANGED req

Settled(e) == req[e].hpc \in {"returned", "rejected"} /\ run[e].ppc \in {"none", "resolved", "rejected"}

\* the event is over: nothing of it is kept for the next one
Finish(e) == /\ Settled(e)
             /\ req' = [req EXCEPT ![e] = IdleReq]
             /\ run' = [run EXCEPT ![e] = NoRun]

\* the slots that events are delivered to, one after the other
Primary == {1}

Next == \/ \E e \in Primary, h \in HeaderValues, b \in Bodies : Receive(e, h, b)
        \/ \E e \in Primary : JsonSettle(e)
        \/ \E e \in Primary, fr \in FileResponses : FetchResolve(e, fr)
        \/ \E e \in Primary : FetchReject(e)
        \/ \E e \in Primary : BlobResolve(e)
        \/ \E e \in Primary : BlobReject(e)
        \/ \E e \in Primary : UploadFetchResolve(e)
        \/ \E e \in Primary : UploadFetchReject(e)
        \/ \E e \in Primary, result \in UploadResults : UploadJsonResolve(e, result)
        \/ \E e \in Primary : UploadJsonReject(e)
        \/ \E e \in Primary : SendFetchResolve(e)
        \/ \E e \in Primary : SendFetchReject(e)
        \/ \E e \in Primary : SendJsonResolve(e)
        \/ \E e \in Primary : SendJsonReject(e)
        \/ \E e \in Primary : Finish(e)

Spec == Init /\ [][Next]_vars

\* the host runs the dispatcher's own continuation once the body has been
\* read; no network answer of the pipeline is ever promised
FairSpec == Spec /\ \A e \in Primary : WF_vars(JsonSettle(e))

TypeOK == /\ \A e \in Events : req[e].hpc \in {"idle", "awaitJson", "returned", "rejected"}
          /\ \A e \in Events : run[e].ppc \in {"none", "awaitFetch", "awaitBlob", "upload_fetch", "upload_json", "resolved", "rejected"} \cup SendFetchStates \cup SendJsonStates

(***************************************************************************)
(* Properties                                                              *)
(***************************************************************************)
\* the request of event e carried the configured secret
Authorised(e) == req[e].hpc # "idle" /\ req[e].header = SECRET

\* handleWebhook has ended for event e, by returning or by throwing
HandlerEnded(e) == req[e].hpc \in {"returned", "rejected"}

\* onMessage has been called for event e
OnMessageRan(e) == req[e].hpc = "returned" /\ req[e].resp = OkResponse /\ "message" \in DOMAIN req[e].body

\* the texts of Texts that are not URLs, by the URL standard
NonUrlTexts == {Absent, NotAUrl, EmptyText, NoScheme, NoHost}

\* the content-length values above 52,428,800
OversizeLengths == {Some(<<"5", "2", "4", "2", "8", "8", "0", "1">>), Some(<<"6", "0", "0", "0", "0", "0", "0", "0">>)}

\* the content-length values that are absent or not a number
UnknownLengths == {Absent, Some(<<"a", "b", "c">>), Some(<<>>)}

ImageType == Some(<<"i", "m", "a", "g", "e", "/", "p", "n", "g">>)

VideoType == Some(<<"v", "i", "d", "e", "o", "/", "m", "p", "4">>)

AudioType == Some(<<"a", "u", "d", "i", "o", "/", "m", "p", "e", "g">>)

\* the content-type values that are absent or not an image, video or audio type
OtherTypes == {Absent, Some(<<"a", "p", "p", "l", "i", "c", "a", "t", "i", "o", "n", "/", "z", "i", "p">>)}

\* the fetch of event e answered with a success status
FetchedOk(e) == run[e].fetched /\ run[e].fileResponse.ok

\* the body of the resource of event e has been read: it passed the size gate
BodyRead(e) == FetchedOk(e) /\ run[e].fileBlob # NoBlob

\* the methods of the upload requests event e has issued
UploadedWith(e) == {run[e].out[i].method : i \in UploadsOf(run[e])}

\* the texts of the chat messages event e has issued
TextsSent(e) == {run[e].out[i].text : i \in MessagesOf(run[e])}

\* C1: every authorised request is answered 200 "Ok", whatever its body is
\* and whatever the pipeline does (stated as the claim; the code throws on
\* a body that is not JSON).
C1_AuthorisedAlwaysOk == \A e \in Events : (Authorised(e) /\ HandlerEnded(e)) => req[e].resp = OkResponse

\* C2: a request whose secret header is missing or wrong is answered 403,
\* its body is never parsed, onUpdate never runs and no outbound request is
\* issued for it.
C2_MismatchNoPipeline == \A e \in Events : (req[e].hpc # "idle" /\ req[e].header # SECRET) => (req[e].hpc = "returned" /\ req[e].resp = Unauthorized /\ ~req[e].parsed /\ run[e] = NoRun)

C2_Witness == \E e \in Events : req[e].header = Some("guess") /\ req[e].resp.status = 403 /\ "message" \in DOMAIN req[e].body

\* C3: an authorised request with a parseable body is eventually answered
\* "Ok", also in the behaviours where the pipeline's fetch or upload never
\* completes (no progress of the pipeline is assumed).
C3_AckDoesNotWait == \A e \in Events : (req[e].hpc = "awaitJson" /\ req[e].body.kind # "garbage") ~> (req[e].resp = OkResponse)

C3_Witness == \E e \in Events : req[e].resp = OkResponse /\ run[e].ppc \in {"awaitFetch", "upload_fetch"}

\* C4: for a message whose text is not a URL (or is missing), the only
\* outbound request is one sendMessage with the guidance text to the
\* message's chat: no fetch of a resource, no upload.
C4_NonUrlGuidanceOnly == \A e \in Events : (OnMessageRan(e) /\ req[e].body.message.text \in NonUrlTexts) => (run[e].out = <<SendMessageRequest(req[e].body.message.chat.id, GuidanceText)>> /\ run[e].bodyReads = 0)

C4_Witness == \E e \in Events : OnMessageRan(e) /\ req[e].body.message.text = NoHost /\ run[e].ppc = "resolved"

\* C5: when a success response declares a content-length above 52,428,800,
\* the message sent to the chat is the size-limit text, the body is never
\* read and no upload is issued; a further message appears only as the
\* report that this sendMessage call itself failed.
C5_OversizeRejected == \A e \in Events : (FetchedOk(e) /\ run[e].fileResponse.contentLength \in OversizeLengths) => ((run[e].bodyReads = 0) /\ (UploadsOf(run[e]) = {}) /\ (Len(run[e].out) >= 2) /\ (run[e].out[2] = SendMessageRequest(run[e].chatId, TooLargeText)) /\ (Len(run[e].out) > 2 => (Len(run[e].out) = 3 /\ run[e].out[3] \in {SendMessageRequest(run[e].chatId, <<"Error: ">> \o m) : m \in {NetworkError, JsonError}})))

C5_Witness == \E e \in Events : FetchedOk(e) /\ run[e].fileResponse.contentLength = Some(<<"5", "2", "4", "2", "8", "8", "0", "1">>) /\ run[e].ppc = "resolved" /\ Len(run[e].out) = 2

\* C6: when the content-length of a success response is absent or not a
\* number, the size gate lets the resource through: the body read is
\* started right after the fetch, before any message, and the size-limit
\* text is never sent.
C6_UnknownLengthPasses == \A e \in Events : (FetchedOk(e) /\ run[e].fileResponse.contentLength \in UnknownLengths) => ((run[e].bodyReads = 1) /\ (TooLargeText \notin TextsSent(e)) /\ (run[e].ppc \notin {"toolarge_fetch", "toolarge_json"}) /\ (run[e].ppc = "awaitBlob" => Len(run[e].out) = 1))

C6_Witness == \E e \in Events : FetchedOk(e) /\ run[e].fileResponse.contentLength = Absent /\ run[e].ppc = "awaitBlob"

\* C7: a declared media type image/, video/ or audio/ selects sendPhoto,
\* sendVideo or sendAudio for every filename extension (stated as the
\* claim; the code lets an image extension win over a video media type).
C7_MediaTypeDecides == \A e \in Events : (BodyRead(e) /\ UploadsOf(run[e]) # {}) => ((run[e].fileResponse.contentType = ImageType => UploadedWith(e) = {"sendPhoto"}) /\ (run[e].fileResponse.contentType = VideoType => UploadedWith(e) = {"sendVideo"}) /\ (run[e].fileResponse.contentType = AudioType => UploadedWith(e) = {"sendAudio"}))

\* C8: with the media type absent or unrecognised, a filename ending in
\* .mp4, .jpg or .mp3 (any case) selects sendVideo, sendPhoto or sendAudio
\* (stated as the claim; the code throws when the media type is absent).
C8_ExtensionDecides == \A e \in Events : (BodyRead(e) /\ run[e].fileResponse.contentType \in OtherTypes) => ((run[e].text = JpgUrl => UploadedWith(e) = {"sendPhoto"}) /\ (run[e].text = Mp4Url => UploadedWith(e) = {"sendVideo"}) /\ (run[e].text \in {Mp3Url, QueryUrl} => UploadedWith(e) = {"sendAudio"}))

\* C9: with neither a recognised media type (it may be absent) nor a
\* recognised extension, sendDocument is called and classification raises
\* no error (stated as the claim; the code throws when the media type is
\* absent).
C9_DocumentFallback == \A e \in Events : (BodyRead(e) /\ run[e].fileResponse.contentType \in OtherTypes /\ run[e].text \in {ZipUrl, DirUrl, BareUrl}) => (UploadedWith(e) = {"sendDocument"} /\ run[e].lastError # NullTypeError)

C11_PipelineNeverRejects == \A e \in Events : OnMessageRan(e) => run[e].ppc # "rejected"

\* every network call of the pipeline eventually returns, by resolving or by
\* rejecting; the dispatcher's continuation runs as in FairSpec
LiveSpec == FairSpec /\ \A e \in Primary : /\ WF_vars((\E fr \in FileResponses : FetchResolve(e, fr)) \/ FetchReject(e))
                                           /\ WF_vars(BlobResolve(e) \/ BlobReject(e))
                                           /\ WF_vars(UploadFetchResolve(e) \/ UploadFetchReject(e))
                                           /\ WF_vars((\E result \in UploadResults : UploadJsonResolve(e, result)) \/ UploadJsonReject(e))
                                           /\ WF_vars(SendFetchResolve(e) \/ SendFetchReject(e))
                                           /\ WF_vars(SendJsonResolve(e) \/ SendJsonReject(e))

\* the upload of event e succeeded: the pipeline ended right after its one upload
UploadSucceeded(e) == run[e].ppc = "resolved" /\ UploadsOf(run[e]) # {} /\ run[e].lastError = <<>>

\* event e has issued a text message with one of the three wordings
UserTold(e) == \E i \in MessagesOf(run[e]) : run[e].out[i].chat_id = run[e].chatId /\ (run[e].out[i].text \in {GuidanceText, TooLargeText} \/ Head(run[e].out[i].text) = "Error: ")

\* C12: when every outbound call eventually returns, every message that is
\* handled ends in a successful upload or in a text message (guidance,
\* size limit or "Error: ...") issued to the chat.
C12_NeverSilent == \A e \in Events : OnMessageRan(e) ~> (UploadSucceeded(e) \/ UserTold(e))

C12_Witness == \E e \in Events : OnMessageRan(e) /\ run[e].bodyReads = 1 /\ run[e].lastError = NetworkError /\ UserTold(e) /\ UploadsOf(run[e]) = {}

\* the download of event e failed: the fetch rejected or answered a non-success status
DownloadFailed(e) == \/ run[e].fetched /\ ~run[e].fileResponse.ok
                     \/ ~run[e].fetched /\ run[e].lastError = NetworkError /\ DownloadsOf(run[e]) # {}

\* C13: when the URL is invalid or its download fails, the bot answers the
\* chat with "Please send a valid URL to download the file." (stated as the
\* claim, which is the README's; the code answers a failed download with
\* "Error: ...").
C13_GuidanceOnFailedDownload == \A e \in Events : (OnMessageRan(e) /\ (req[e].body.message.text \in NonUrlTexts \/ DownloadFailed(e))) => GuidanceText \in TextsSent(e)

\* the descriptions the platform gives with a falsy ok
FailureDescriptions == {u.description : u \in {v \in UploadResults : ~v.ok}}

\* the error in hand is the one an upload operation throws on a falsy ok
UploadRefused(e) == Len(run[e].lastError) = 4 /\ run[e].lastError[1] = "Failed to send "

\* C14: an invocation issues at most one upload request; when the platform
\* answers it with a falsy ok, the error carries the platform's description
\* and is reported as one "Error: <message>" text, with no second upload.
C14_SingleUploadAttempt == \A e \in Events : (Cardinality(UploadsOf(run[e])) <= 1) /\ (UploadRefused(e) => (run[e].lastError[4] \in FailureDescriptions /\ Len(run[e].out) = 3 /\ UploadsOf(run[e]) = {2} /\ run[e].out[3] = SendMessageRequest(run[e].chatId, <<"Error: ">> \o run[e].lastError)))

C14_Witness == \E e \in Events : UploadRefused(e) /\ run[e].lastError[4] = "Request Entity Too Large" /\ run[e].ppc = "resolved"

\* C16: in one invocation a successful upload and a text message never both
\* occur: after an upload that returned ok no sendMessage is issued, and no
\* sendMessage request precedes an upload request.
C16_UploadXorMessage == \A e \in Events : (UploadSucceeded(e) => MessagesOf(run[e]) = {}) /\ (\A i \in UploadsOf(run[e]), j \in MessagesOf(run[e]) : i < j) /\ ((UploadsOf(run[e]) # {} /\ MessagesOf(run[e]) # {}) => run[e].lastError # <<>>)

C16_Witness == \E e \in Events : UploadSucceeded(e) /\ run[e].out[2].method = "sendVideo" /\ Len(run[e].out) = 2

\* what follows the scheme, its slashes and the host of a URL
AfterHost(s) == LET rest == SkipSlashes(SubSeq(s, SchemeEnd(s) + 1, Len(s))) IN SubSeq(rest, Len(HostOf(rest)) + 1, Len(rest))

\* the part of s before its query string or fragment
RECURSIVE BeforeQuery(_)
BeforeQuery(s) == IF s = <<>> \/ Head(s) \in {"?", "#"} THEN <<>> ELSE <<Head(s)>> \o BeforeQuery(Tail(s))

\* the path of a URL, by the URL standard
UrlPath(s) == BeforeQuery(AfterHost(s))

\* the final path segment of a URL, "file" when the path is empty or ends in a separator
FinalPathSegment(s) == IF LastSegment(UrlPath(s)) = <<>> THEN <<"f", "i", "l", "e">> ELSE LastSegment(UrlPath(s))

\* C17: the filename of the upload is the final path segment of the URL,
\* and "file" when the path is empty or ends in a separator, also for a URL
\* without a path and for a URL with a query string (stated as the claim;
\* the code takes what follows the last '/' of the whole text).
C17_FileNameIsFinalSegment == \A e \in Events : \A i \in UploadsOf(run[e]) : run[e].out[i].fileName = FinalPathSegment(run[e].text.value)

(***************************************************************************)
(* Several events in flight at once: every slot receives events, from a    *)
(* smaller set of inputs                                                   *)
(***************************************************************************)
ConcMessages == {[chat |-> [id |-> 101], text |-> JpgUrl], [chat |-> [id |-> 202], text |-> Mp3Url], [chat |-> [id |-> 202], text |-> NotAUrl]}

ConcBodies == {[kind |-> "update", message |-> m] : m \in ConcMessages}

ConcUploadResults == {u \in UploadResults : u.description # "Request Entity Too Large"}

ConcResponses == {fr \in FileResponses : fr.contentType = AudioType /\ fr.contentLength \in {Absent, Some(<<"6", "0", "0", "0", "0", "0", "0", "0">>)} /\ fr.statusText \in {"OK", "Not Found"}}

ConcNext == \/ \E e \in Events, b \in ConcBodies : Receive(e, SECRET, b)
            \/ \E e \in Events : JsonSettle(e)
            \/ \E e \in Events, fr \in ConcResponses : FetchResolve(e, fr)
            \/ \E e \in Events : FetchReject(e)
            \/ \E e \in Events : BlobResolve(e)
            \/ \E e \in Events : BlobReject(e)
            \/ \E e \in Events : UploadFetchResolve(e)
            \/ \E e \in Events : UploadFetchReject(e)
            \/ \E e \in Events, result \in ConcUploadResults : UploadJsonResolve(e, result)
            \/ \E e \in Events : UploadJsonReject(e)
            \/ \E e \in Events : SendFetchResolve(e)
            \/ \E e \in Events : SendFetchReject(e)
            \/ \E e \in Events : SendJsonResolve(e)
            \/ \E e \in Events : SendJsonReject(e)
            \/ \E e \in Events : Finish(e)

ConcSpec == Init /\ [][ConcNext]_vars

\* the outbound request q is the one the message of event e calls for: its
\* own URL, its own chat, its own content and filename
OwnRequest(e, q) == LET m == req[e].body.message
                    IN CASE q.method = "GET" -> q.url = m.text.value
                         [] q.method = "sendMessage" -> q.chat_id = m.chat.id
                         [] OTHER -> q.chat_id = m.chat.id /\ q.file = [of |-> m.text.value] /\ q.fileName = FileNameOf(m.text.value)

AllRequestsOwn == \A e \in Events : \A i \in 1 .. Len(run[e].out) : OwnRequest(e, run[e].out[i])

\* a step of one event changes nothing of any other event
StepsOneEvent == \A e \in Events : (req'[e] # req[e] \/ run'[e] # run[e]) => \A f \in Events \ {e} : req'[f] = req[f] /\ run'[f] = run[f]

\* C15: with the steps of several events interleaved at every await, every
\* request an invocation issues carries the chat id, content and filename
\* of its own message, and no step of one invocation changes another.
C15_InvocationsIndependent == []AllRequestsOwn /\ [][StepsOneEvent]_vars

C15_Witness == \E e, f \in Events : run[e].ppc = "upload_json" /\ run[f].ppc \in {"error_fetch", "guidance_json"} /\ run[e].chatId # run[f].chatId /\ run[e].chatId # 0 /\ run[f].chatId # 0

====
